---- MODULE Spec2Model ----
(***************************************************************************)
(* Rate-governed fetch engine of the idealista scraper.                    *)
(*                                                                         *)
(*   RateLimiter          src/src/repositories/http/rate_limiter.py        *)
(*   BaseHTTPClient       src/src/repositories/http/base_http_client.py    *)
(*   IdealistaScraper     src/src/scrapers/idealista_scraper.py            *)
(*   scrape_*_task        src/src/scrapers/tasks.py                        *)
(*                                                                         *)
(* Time is the event loop's clock in whole seconds.  The token count of    *)
(* the limiter is kept in units of 1/FillDen token, so that                *)
(* "tokens += elapsed * fill_rate" with fill_rate = 1/FillDen is the exact *)
(* integer addition "tokens + elapsed" and "tokens >= amount" is           *)
(* "tokens >= amount * FillDen".                                           *)
(***************************************************************************)
EXTENDS Integers, Sequences, FiniteSets, TLC

(* ------------------------------------------------------------------ *)
(* Program constants                                                    *)
(* ------------------------------------------------------------------ *)
\* RateLimiter(tokens=1, fill_rate=1 / 27)
InitialTokens == 1
FillDen == 27
\* BaseHTTPClient.__init__ defaults
concurrent_requests_limit == 1
max_retries == 3
sleep_after_rate_limit == 43200
\* _get_backoff_time defaults
initial_backoff == 32
max_backoff == 64
\* idealista_to_gcp_pipeline: max_execution_time = 18 * 60 * 60
max_execution_time == 64800
\* @task(retries=3) of scrape_properties_task
task_retries == 3

(* ------------------------------------------------------------------ *)
(* Bounds of the model                                                  *)
(* ------------------------------------------------------------------ *)
\* longest timeline of the stand-alone limiter
MaxClock == 60
\* number of consume() calls in the stand-alone limiter timeline
MaxCalls == 4
\* number of item URLs handed to scrape_properties
NUrls == 2
\* IdealistaScraper.batch_size (default 30), scaled down to the model's lists;
\* a scraper is constructed with a batch size in 1..batch_size
batch_size == 2
\* IdealistaScraper.max_pages (default 60), scaled down likewise
max_pages == 3
\* batch_size of idealista_to_gcp_pipeline (default 30): the chunk length,
\* scaled down to the model's lists
flow_batch_size == 2
\* number of property URLs scrape_search_task hands to the pipeline
NFound == 3
\* stand-alone helper functions: result counts 0..MaxResults, page sizes and
\* chunk sizes 1..MaxSize, list lengths 0..MaxList, attempts 0..MaxAttempt
MaxResults == 40
MaxSize == 4
MaxList == 9
MaxAttempt == 5
\* GETs of one run that the server or the network fails (any status but
\* 200, or a network error)
MaxFaults == 4
\* header sets get_random_header() chooses from (five in the code)
NIdentities == 2
\* concurrent_requests_limit of a BaseHTTPClient constructed with more than
\* one slot
MaxLimit == 2

VARIABLES
    now,            \* the event loop's clock
    tokens,         \* RateLimiter.tokens, in 1/FillDen
    last_time,      \* RateLimiter.last_time
    lim,            \* stand-alone limiter: record of the last consume() call
    semaphore,      \* BaseHTTPClient.semaphore: free slots
    last_successful_url, \* BaseHTTPClient.last_successful_url (0 = None)
    session,        \* BaseHTTPClient.session: "open" | "closed" (None)
    referer,        \* session.headers["referer"]
    call,           \* per request() call: position, attempt index, counters
    doneq,          \* asyncio.as_completed: finished tasks not yet consumed
    main,           \* the coroutine driving the session (scraper method)
    flow,           \* idealista_to_gcp_pipeline: the chunk loop
    hist,           \* observation of the admissions granted by the client
    calc            \* stand-alone helper functions: the last call and its result

limVars == <<now, tokens, last_time, lim>>
clientVars == <<semaphore, last_successful_url, session, referer, call, doneq, main, flow,
                hist>>
vars == <<now, tokens, last_time, lim, semaphore, last_successful_url, session, referer,
          call, doneq, main, flow, hist, calc>>

(* ------------------------------------------------------------------ *)
(* RateLimiter                                                          *)
(* ------------------------------------------------------------------ *)
\* consume(amount) called at time t on a limiter holding tok, last refilled
\* at lt: the limiter after the call and the call's result.
consume_bad_charge(tok, lt, t, amount) ==
    LET filled == tok + (t - lt)
    IN  [tokens    |-> filled - amount * FillDen,
         last_time |-> t,
         ok        |-> filled >= amount * FillDen]

consume_no_charge(tok, lt, t, amount) ==
    LET filled == tok + (t - lt)
    IN  [tokens |-> filled, last_time |-> t, ok |-> filled >= amount * FillDen]

consume(tok, lt, t, amount) ==
    LET filled == tok + (t - lt)
    IN  IF filled >= amount * FillDen
        THEN [tokens |-> filled - amount * FillDen, last_time |-> t, ok |-> TRUE]
        ELSE [tokens |-> filled, last_time |-> t, ok |-> FALSE]

\* the stand-alone limiter before its first call
\* TokenBucket(tokens=1, fill_rate=1/27) of scraper_class.py as constructed,
\* in the same units as the limiter
NewBucket == [capacity |-> InitialTokens * FillDen, tokens |-> InitialTokens * FillDen,
              timestamp |-> 0, ok |-> FALSE]

NoCall == [n |-> 0, pre |-> InitialTokens * FillDen, elapsed |-> 0, ok |-> FALSE,
           bucket |-> NewBucket]

\* no helper function has been called
NoCalc == [fn |-> "none", args |-> << >>, out |-> << >>]

(* ------------------------------------------------------------------ *)
(* BaseHTTPClient.request                                               *)
(* ------------------------------------------------------------------ *)
\* call 0 is the warm-up request of __aenter__, calls 1..NUrls are the
\* requests of the scraper method; the URL of call t is t (0 for the
\* warm-up is told apart from "no URL" by last_successful_url = -1)
Max(a, b) == IF a >= b THEN a ELSE b
NCalls == Max(Max(NUrls, max_pages), flow_batch_size)
Calls == 0 .. NCalls
NoUrl == -1
\* the referer of get_random_header(): "https://www.google.es/"
InitialReferer == -2

Min(a, b) == IF a <= b THEN a ELSE b

\* random.uniform(1, 5) of wait_for_token
PollSleeps == {3}
\* random.uniform(0.5, 1.5) of _get_backoff_time, in halves
JitterHalves == {1, 3}
\* time a GET takes to come back (timeout=60)
Latencies == {1}

\* _get_backoff_time(retry_count) for the jitter j/2
BackoffBase(retry_count) == Min(initial_backoff * (2 ^ retry_count), max_backoff)
BackoffTime_whole(retry_count, j) == BackoffBase(retry_count) * j
BackoffTime(retry_count, j) == (BackoffBase(retry_count) * j) \div 2

\* get_random_header(): the header sets it chooses from, by index
Identities == 1 .. NIdentities
\* no header set drawn, no GET sent
NoIdentity == 0

\* gets: GETs issued by the call; rls: rate-limit responses it received;
\* streak: how many of its latest responses in a row were rate-limit responses
NewCall == [pc |-> "new", url |-> NoUrl, retries |-> 0, wake |-> 0, gets |-> 0, rls |-> 0,
            backoffs |-> 0, cooldowns |-> 0, referer |-> NoUrl, identity |-> NoIdentity,
            streak |-> 0, outcome |-> "none", data |-> "pending"]

\* calls that hold a slot of the semaphore
Holding == {"admit", "poll", "get", "backoff", "cooldown"}
\* calls that wait for a point in time
Timed == {"poll", "get", "backoff", "cooldown"}

\* the calls run as tasks of asyncio.as_completed: the item fetches of
\* scrape_properties, the follow-up pages of scrape_search (call 1 of
\* scrape_search is the first page, awaited in place)
IsTask(t) == IF main.mode = "search" THEN t >= 2 ELSE t >= 1

\* `async with self.semaphore`: exit, by return or by exception
release_lost(value) == value
release_none(value) == 0
release(value) == value + 1

\* the call ends: `async with self.semaphore` releases the slot; a call run
\* as a task of as_completed is queued for the consumer
Finish(t, out, dat) ==
    /\ call' = [call EXCEPT ![t] = [@ EXCEPT !.pc = "done", !.outcome = out,
                                               !.data = dat]]
    /\ semaphore' = release(semaphore)
    /\ doneq' = IF IsTask(t) THEN Append(doneq, t) ELSE doneq

\* asyncio.Semaphore: a slot is free
gate_open_always(value) == value >= 0
gate_open_unbounded(value) == TRUE

gate_open(value) == value > 0

\* `async with self.semaphore`: entry.  asyncio.Semaphore wakes its waiters
\* first-in first-out, and the tasks of one as_completed reach the gate in
\* the order they were started: calls are numbered in that order (the order
\* random.shuffle and as_completed leave the URLs in)
Acquire(t) ==
    /\ call[t].pc = "gate"
    /\ \A u \in Calls : u < t => call[u].pc # "gate"
    /\ gate_open(semaphore)
    /\ semaphore' = semaphore - 1
    /\ call' = [call EXCEPT ![t] = [@ EXCEPT !.pc = "admit", !.retries = 0]]
    /\ UNCHANGED <<now, tokens, last_time, lim, calc, flow, last_successful_url, session, referer,
                   doneq, main, hist>>

\* `if self.last_successful_url: self.session.headers["referer"] = ...`:
\* the referer header the next GET carries
referer_kept(last_url, header) == header
referer_sent(last_url, header) == IF last_url # NoUrl THEN last_url ELSE header

\* `self.session.get(url)`: the header set the GET carries is the one the
\* httpx.AsyncClient was built with
headers_redrawn(session_headers) == (session_headers % NIdentities) + 1
headers_sent(session_headers) == session_headers

\* one round of wait_for_token and, when the token is granted, the referer
\* update and the start of session.get(url)
Admit(t) ==
    /\ call[t].pc = "admit"
    /\ LET r == consume(tokens, last_time, now, 1)
       IN  /\ tokens' = r.tokens
           /\ last_time' = r.last_time
           /\ IF ~r.ok
              THEN /\ \E d \in PollSleeps :
                        call' = [call EXCEPT ![t] = [@ EXCEPT !.pc = "poll",
                                                               !.wake = now + d]]
                   /\ UNCHANGED <<semaphore, doneq, hist, referer>>
              ELSE /\ hist' = [hist EXCEPT
                                !.lastGrant = now,
                                !.lastGap = IF hist.lastGrant < 0 THEN -1
                                            ELSE Min(now - hist.lastGrant, FillDen),
                                !.grants = @ + 1]
                   /\ IF session = "closed"
                      THEN \* self.session is None: AttributeError leaves the call
                           /\ Finish(t, "Crashed", "raise")
                           /\ UNCHANGED referer
                      ELSE /\ referer' = referer_sent(last_successful_url, referer)
                           /\ \E d \in Latencies :
                                call' = [call EXCEPT ![t] =
                                            [@ EXCEPT !.pc = "get", !.wake = now + d,
                                                      !.gets = @ + 1,
                                                      !.referer = referer',
                                                      !.identity =
                                                          headers_sent(main.headers)]]
                           /\ UNCHANGED <<semaphore, doneq>>
    /\ UNCHANGED <<now, lim, calc, flow, last_successful_url, session, main>>

\* asyncio.sleep(random.uniform(1, 5)) of wait_for_token is over
PollWake(t) ==
    /\ call[t].pc = "poll"
    /\ now >= call[t].wake
    /\ call' = [call EXCEPT ![t] = [@ EXCEPT !.pc = "admit"]]
    /\ UNCHANGED <<now, tokens, last_time, lim, calc, flow, semaphore, last_successful_url,
                   session, referer, doneq, main, hist>>

\* _handle_rate_limit(response, retry_count): TRUE when it sleeps,
\* FALSE when it raises RateLimitException
handle_rate_limit_twice(retry_count) == retry_count <= 1
handle_rate_limit_always(retry_count) == TRUE

handle_rate_limit_sleeps(retry_count) == retry_count = 0

\* the GET of call t comes back with status 200
RespondOk(t) ==
    /\ call[t].pc = "get"
    /\ now >= call[t].wake
    /\ last_successful_url' = call[t].url
    /\ IF main.mode = "properties" /\ t >= 1
       THEN \* _fetch_property: parse_property() returns or raises
            \E parsed \in {"record", "none"} : Finish(t, "Success", parsed)
       ELSE Finish(t, "Success", "response")
    /\ UNCHANGED <<now, tokens, last_time, lim, calc, flow, session, referer, main, hist>>

\* the GET of call t comes back with status 403, 429 or 503
RespondRateLimit(t) ==
    /\ call[t].pc = "get"
    /\ now >= call[t].wake
    /\ hist.faults < MaxFaults
    /\ hist' = [hist EXCEPT !.faults = @ + 1]
    /\ IF handle_rate_limit_sleeps(call[t].retries)
       THEN /\ call' = [call EXCEPT ![t] =
                          [@ EXCEPT !.pc = "cooldown", !.rls = @ + 1,
                                    !.cooldowns = @ + 1,
                                    !.streak = @ + 1,
                                    !.wake = now + sleep_after_rate_limit]]
            /\ UNCHANGED <<semaphore, doneq>>
       ELSE \* RateLimitException leaves `async with self.semaphore`
            /\ call' = [call EXCEPT ![t] =
                          [@ EXCEPT !.pc = "done", !.rls = @ + 1,
                                    !.streak = @ + 1,
                                    !.outcome = "RateLimited", !.data = "raise"]]
            /\ semaphore' = release(semaphore)
            /\ doneq' = IF IsTask(t) THEN Append(doneq, t) ELSE doneq
    /\ UNCHANGED <<now, tokens, last_time, lim, calc, last_successful_url, session, referer, main,
                   flow>>

\* the GET of call t comes back with another status, or fails with
\* httpx.RequestError / asyncio.TimeoutError: _wait_before_retry
RespondTransient(t) ==
    /\ call[t].pc = "get"
    /\ now >= call[t].wake
    /\ hist.faults < MaxFaults
    /\ hist' = [hist EXCEPT !.faults = @ + 1]
    /\ \E j \in JitterHalves :
         call' = [call EXCEPT ![t] =
                    [@ EXCEPT !.pc = "backoff", !.streak = 0,
                              !.backoffs = @ + 1,
                              !.wake = now + BackoffTime(call[t].retries, j)]]
    /\ UNCHANGED <<now, tokens, last_time, lim, calc, flow, semaphore, last_successful_url,
                   session, referer, doneq, main>>

\* `for retries in range(self.max_retries + 1)`: there is a round after the
\* round numbered retry_count
more_attempts_extra(retry_count) == retry_count <= max_retries

more_attempts(retry_count) == retry_count + 1 <= max_retries

\* the sleep of _wait_before_retry or _handle_rate_limit is over: the next
\* round of `for retries in range(self.max_retries + 1)`, or `return None`
RetryWake(t) ==
    /\ call[t].pc \in {"backoff", "cooldown"}
    /\ now >= call[t].wake
    /\ IF more_attempts(call[t].retries)
       THEN /\ call' = [call EXCEPT ![t] = [@ EXCEPT !.pc = "admit",
                                                      !.retries = @ + 1]]
            /\ UNCHANGED <<semaphore, doneq>>
       ELSE Finish(t, "Transient", "none")
    /\ UNCHANGED <<now, tokens, last_time, lim, calc, flow, last_successful_url, session, referer,
                   main, hist>>

(* ------------------------------------------------------------------ *)
(* IdealistaScraper: session, scrape_properties, scrape_search          *)
(* ------------------------------------------------------------------ *)
\* random.uniform(2, 10) of the periodic sleep
BatchSleeps == {2, 10}

\* get_total_pages() has not been called
NoCount == -2

\* the coroutine of a scraper session at `async with IdealistaScraper()`:
\* mode: the method called in the session; n: the number of tasks of its
\* as_completed loop (for scrape_properties, the length of the URL list)
NewMain(mode, n, paginate) ==
    [mode |-> mode, pc |-> "enter", n |-> n, paginate |-> paginate,
     request_counter |-> 0, properties |-> << >>,
     seen |-> 0, property_urls |-> << >>, logged |-> << >>, counted |-> NoCount,
     batch_size |-> batch_size, sleeps |-> 0, headers |-> NoIdentity,
     wake |-> 0, exc |-> "none"]

\* no pipeline around the session
NoFlow == [pc |-> "none", n |-> 0, i |-> 0, runs |-> 0, processed |-> 0,
           start_time |-> 0, hard |-> FALSE, error |-> "none"]

\* __aenter__: `await self.http_client.request(self.base_url)` is over
Entered ==
    /\ main.pc = "enter"
    /\ call[0].pc = "done"
    /\ main' = [main EXCEPT !.pc = IF call[0].data = "raise" THEN "aborted"
                                   ELSE "start",
                            !.exc = IF call[0].data = "raise" THEN call[0].outcome
                                    ELSE @]
    /\ UNCHANGED <<now, tokens, last_time, lim, calc, flow, semaphore, last_successful_url,
                   session, referer, call, doneq, hist>>

\* the URL list handed to scrape_properties: n distinct URLs 1..n
InputUrls(n) == [k \in 1 .. n |-> k]

\* random.shuffle(urls): the list in any order
shuffle_resample(urls) ==
    {[k \in 1 .. Len(urls) |-> urls[f[k]]] : f \in [1 .. Len(urls) -> 1 .. Len(urls)]}
shuffle(urls) ==
    {[k \in 1 .. Len(urls) |-> urls[f[k]]] :
        f \in {g \in [1 .. Len(urls) -> 1 .. Len(urls)] :
                  \A a, b \in 1 .. Len(urls) : g[a] = g[b] => a = b}}

\* scrape_properties: shuffle, one _fetch_property task per URL, and the
\* first step of the as_completed loop
Launch ==
    /\ main.pc = "start"
    /\ main.mode = "properties"
    /\ \E urls \in shuffle(InputUrls(main.n)) :
         call' = [t \in Calls |->
                    IF t >= 1 /\ t <= main.n
                    THEN [call[t] EXCEPT !.pc = "gate", !.url = urls[t]]
                    ELSE call[t]]
    /\ main' = [main EXCEPT !.pc = IF main.n = 0 THEN "returned" ELSE "await"]
    /\ UNCHANGED <<now, tokens, last_time, lim, calc, flow, semaphore, last_successful_url,
                   session, referer, doneq, hist>>

\* where the as_completed loop goes after `counted` completions
AfterCompletion_first(counted) == "returned"
AfterCompletion(counted) == IF counted = main.n THEN "returned" ELSE "await"

\* `if request_counter % self.batch_size == 0`
cooldown_due_always(request_counter, size) == TRUE
cooldown_due(request_counter, size) == request_counter % size = 0

\* scrape_properties: `property_data = await future` and the rest of the
\* loop body
Collect ==
    /\ main.pc = "await"
    /\ main.mode = "properties"
    /\ doneq # << >>
    /\ LET t == Head(doneq)
           counted == main.request_counter + 1
       IN  /\ doneq' = Tail(doneq)
           /\ IF call[t].data = "raise"
              THEN main' = [main EXCEPT !.pc = "raised", !.exc = call[t].outcome]
              ELSE \E d \in BatchSleeps :
                     main' = [main EXCEPT
                        !.properties = IF call[t].data = "record"
                                       THEN Append(@, call[t].url) ELSE @,
                        !.request_counter = counted,
                        !.sleeps = IF cooldown_due(counted, main.batch_size)
                                   THEN @ + 1 ELSE @,
                        !.pc = IF cooldown_due(counted, main.batch_size) THEN "sleep"
                               ELSE AfterCompletion(counted),
                        !.wake = IF cooldown_due(counted, main.batch_size)
                                 THEN now + d ELSE @]
    /\ UNCHANGED <<now, tokens, last_time, lim, calc, flow, semaphore, last_successful_url,
                   session, referer, call, hist>>

\* the periodic sleep of scrape_properties is over
SleepWake ==
    /\ main.pc = "sleep"
    /\ main.mode = "properties"
    /\ now >= main.wake
    /\ main' = [main EXCEPT !.pc = AfterCompletion(main.request_counter)]
    /\ UNCHANGED <<now, tokens, last_time, lim, calc, flow, semaphore, last_successful_url,
                   session, referer, call, doneq, hist>>

\* scrape_search: `first_page = await self.http_client.request(url)`
StartSearch ==
    /\ main.pc = "start"
    /\ main.mode = "search"
    /\ call' = [call EXCEPT ![1] = [@ EXCEPT !.pc = "gate", !.url = 1]]
    /\ main' = [main EXCEPT !.pc = "first"]
    /\ UNCHANGED <<now, tokens, last_time, lim, calc, semaphore, last_successful_url,
                   session, referer, doneq, hist, flow>>

\* IdealistaParser.get_total_pages on a heading that announces total_results:
\* math.ceil(total_results / num_results_page)
get_total_pages_floor(total_results, num_results_page) ==
    total_results \div num_results_page
get_total_pages(total_results, num_results_page) ==
    LET q == total_results \div num_results_page
    IN  IF q * num_results_page = total_results THEN q ELSE q + 1

\* scrape_search: `if total_pages > self.max_pages: total_pages = self.max_pages`
capped_pages_none(total_pages, cap) == total_pages
capped_pages(total_pages, cap) == IF total_pages > cap THEN cap ELSE total_pages

\* the page count the first page announces: get_total_pages() returns
\* ceil(total results / results per page), or raises when the heading or the
\* count is missing (-1)
PageCounts == -1 .. max_pages + 1

\* `if not paginate: return property_urls`
first_page_only_never(paginate) == FALSE
first_page_only(paginate) == ~paginate

\* get_total_pages() raised: no heading, no count in it, or no number
count_failed_never(counted) == FALSE
count_failed(counted) == counted < 0

\* scrape_search once the first page is there: parse_search, the paginate
\* test, get_total_pages, the cap at max_pages and the follow-up tasks
FirstPage ==
    /\ main.pc = "first"
    /\ call[1].pc = "done"
    /\ IF call[1].data = "raise"
       THEN \* RateLimitException of the first page leaves scrape_search
            /\ main' = [main EXCEPT !.pc = "raised", !.exc = call[1].outcome]
            /\ UNCHANGED call
       ELSE IF call[1].outcome # "Success"
       THEN \* first_page is None: IdealistaParser(None).parse_search() raises
            /\ main' = [main EXCEPT !.pc = "raised", !.exc = "Error"]
            /\ UNCHANGED call
       ELSE IF first_page_only(main.paginate)
       THEN /\ main' = [main EXCEPT !.pc = "returned", !.property_urls = <<1>>]
            /\ UNCHANGED call
       ELSE \E counted \in PageCounts :
              IF count_failed(counted)
              THEN /\ main' = [main EXCEPT !.pc = "raised", !.exc = "Error",
                                           !.counted = counted,
                                           !.property_urls = <<1>>]
                   /\ UNCHANGED call
              ELSE LET total_pages == capped_pages(counted, max_pages)
                   IN  /\ call' = [t \in Calls |->
                                     IF t >= 2 /\ t <= total_pages
                                     THEN [call[t] EXCEPT !.pc = "gate", !.url = t]
                                     ELSE call[t]]
                       /\ \E d \in BatchSleeps :
                            main' = [main EXCEPT
                               !.property_urls = <<1>>,
                               !.counted = counted,
                               !.n = IF total_pages >= 2 THEN total_pages - 1 ELSE 0,
                               !.pc = IF total_pages >= 2 THEN "await" ELSE "sleep",
                               !.wake = IF total_pages >= 2 THEN @ ELSE now + d]
    /\ UNCHANGED <<now, tokens, last_time, lim, calc, semaphore, last_successful_url,
                   session, referer, doneq, hist, flow>>

\* scrape_search: one round of the as_completed loop,
\* try: response = await future; parse_search(); extend
\* except Exception: print; and after the last round the final sleep
CollectPage ==
    /\ main.pc = "await"
    /\ main.mode = "search"
    /\ doneq # << >>
    /\ LET t == Head(doneq)
           seen == main.seen + 1
       IN  /\ doneq' = Tail(doneq)
           /\ \E d \in BatchSleeps :
                main' = [main EXCEPT
                   !.seen = seen,
                   !.property_urls = IF call[t].outcome = "Success"
                                     THEN Append(@, t) ELSE @,
                   !.logged = IF call[t].outcome = "Success" THEN @
                              ELSE Append(@, call[t].outcome),
                   !.pc = IF seen = main.n THEN "sleep" ELSE "await",
                   !.wake = IF seen = main.n THEN now + d ELSE @]
    /\ UNCHANGED <<now, tokens, last_time, lim, calc, semaphore, last_successful_url,
                   session, referer, call, hist, flow>>

\* the sleep that ends scrape_search is over: return property_urls
SearchWake ==
    /\ main.pc = "sleep"
    /\ main.mode = "search"
    /\ now >= main.wake
    /\ main' = [main EXCEPT !.pc = "returned"]
    /\ UNCHANGED <<now, tokens, last_time, lim, calc, semaphore, last_successful_url,
                   session, referer, call, doneq, hist, flow>>

\* __aexit__ of `async with IdealistaScraper() as scraper`: the scraper
\* method returned or raised, the session is closed and set to None
AExit ==
    /\ main.pc \in {"returned", "raised"}
    /\ session = "open"
    /\ session' = "closed"
    /\ UNCHANGED referer
    /\ UNCHANGED <<now, tokens, last_time, lim, calc, flow, semaphore, last_successful_url,
                   call, doneq, main, hist>>

(* ------------------------------------------------------------------ *)
(* idealista_to_gcp_pipeline: the chunk loop                            *)
(* ------------------------------------------------------------------ *)
\* chunks(property_urls, batch_size): the length of chunk i (from 0)
\* lst[i : i + n] of chunks(), i counted from 0
slice_short(lst, n, i) == SubSeq(lst, i + 1, Min(i + n - 1, Len(lst)))
slice(lst, n, i) == SubSeq(lst, i + 1, Min(i + n, Len(lst)))

\* chunks(lst, n): for i in range(0, len(lst), n): yield lst[i : i + n]
RECURSIVE chunks_from(_, _, _)
chunks_from(lst, n, i) ==
    IF i >= Len(lst) THEN << >>
    ELSE <<slice(lst, n, i)>> \o chunks_from(lst, n, i + n)
chunks(lst, n) == chunks_from(lst, n, 0)

ChunkLen(n, i) == Min(flow_batch_size, n - i * flow_batch_size)

\* `async with IdealistaScraper() as scraper` over a list of k URLs: a new
\* BaseHTTPClient (limiter, semaphore, referer) and the warm-up request
StartSession(k) ==
    /\ tokens' = InitialTokens * FillDen
    /\ last_time' = now
    /\ semaphore' = concurrent_requests_limit
    /\ last_successful_url' = NoUrl
    /\ session' = "open"
    /\ referer' = InitialReferer
    /\ call' = [t \in Calls |-> IF t = 0 THEN [NewCall EXCEPT !.pc = "gate", !.url = 0]
                                ELSE NewCall]
    /\ doneq' = << >>
    /\ \E h \in Identities :
         main' = [NewMain("properties", k, FALSE) EXCEPT !.headers = h]
    /\ hist' = [hist EXCEPT !.lastGrant = -1, !.lastGap = -1, !.grants = 0]

SessionVars == <<tokens, last_time, semaphore, last_successful_url, session, referer, call,
                 doneq, main, hist>>

\* a fetch of an item has ended RateLimited in this run of the pipeline
HardStopped ==
    flow.hard \/ \E t \in Calls : t >= 1 /\ call[t].outcome = "RateLimited"

\* top of `for i, property_urls_batch in enumerate(chunks(...))`: the next
\* chunk if there is one, the time check, scrape_properties_task(chunk)
FlowCheck ==
    /\ flow.pc = "check"
    /\ IF flow.i * flow_batch_size >= flow.n
          \/ now - flow.start_time > max_execution_time
       THEN /\ flow' = [flow EXCEPT !.pc = "report"]
            /\ UNCHANGED SessionVars
       ELSE /\ flow' = [flow EXCEPT !.pc = "scrape", !.runs = 0]
            /\ StartSession(ChunkLen(flow.n, flow.i))
    /\ UNCHANGED <<now, lim, calc>>

\* `if not property_data`
skip_chunk_never(property_data) == FALSE
skip_chunk_late(property_data) ==
    Len(property_data) = 0 \/ now - flow.start_time > max_execution_time
skip_chunk(property_data) == Len(property_data) = 0

\* scrape_properties_task returned property_data: `if not property_data:
\* continue`, else on to the try block
FlowTaskReturn ==
    /\ flow.pc = "scrape"
    /\ main.pc = "returned"
    /\ session = "closed"
    /\ flow' = IF skip_chunk(main.properties)
               THEN [flow EXCEPT !.pc = "check", !.i = @ + 1]
               ELSE [flow EXCEPT !.pc = "upload"]
    /\ UNCHANGED <<now, lim, calc>>
    /\ UNCHANGED SessionVars

\* scrape_properties_task raised (out of __aenter__, or out of
\* scrape_properties through __aexit__): the task run is retried while
\* retries are left, then the exception leaves the pipeline
FlowTaskRaise ==
    /\ flow.pc = "scrape"
    /\ \/ main.pc = "raised" /\ session = "closed"
       \/ main.pc = "aborted"
    /\ IF flow.runs < task_retries
       THEN /\ flow' = [flow EXCEPT !.runs = @ + 1, !.hard = HardStopped]
            /\ StartSession(main.n)
       ELSE /\ flow' = [flow EXCEPT !.pc = "failed", !.hard = HardStopped,
                                    !.error = main.exc]
            /\ UNCHANGED SessionVars
    /\ UNCHANGED <<now, lim, calc>>

\* `except Exception as e: print(...); break`
upload_failure_continue(f) == [f EXCEPT !.pc = "check", !.i = @ + 1, !.error = "upload"]
upload_failure(f) == [f EXCEPT !.pc = "report", !.error = "upload"]

\* `processed_properties += len(property_data)`
count_processed_urls(processed, property_data) == processed + flow_batch_size
count_processed(processed, property_data) == processed + Len(property_data)

\* try: clean_scraped_data, prepare_parquet_file, save_and_upload_to_gcs,
\* load_data_from_gcs_to_bigquery; except Exception: print, break;
\* else processed_properties += len(property_data)
FlowUpload ==
    /\ flow.pc = "upload"
    /\ \E ok \in BOOLEAN :
         flow' = IF ok
                 THEN [flow EXCEPT !.pc = "check", !.i = @ + 1,
                                   !.processed =
                                       count_processed(@, main.properties)]
                 ELSE upload_failure(flow)
    /\ UNCHANGED <<now, lim, calc>>
    /\ UNCHANGED SessionVars

\* the final report: processed_properties / len(property_urls)
FlowReport ==
    /\ flow.pc = "report"
    /\ flow' = IF flow.n = 0
               THEN [flow EXCEPT !.pc = "failed", !.error = "ZeroDivisionError"]
               ELSE [flow EXCEPT !.pc = "done"]
    /\ UNCHANGED <<now, lim, calc>>
    /\ UNCHANGED SessionVars

FlowStep == FlowCheck \/ FlowTaskReturn \/ FlowTaskRaise \/ FlowUpload \/ FlowReport

(* ------------------------------------------------------------------ *)
(* The event loop                                                       *)
(* ------------------------------------------------------------------ *)
CallStep == \E t \in Calls :
    Acquire(t) \/ Admit(t) \/ PollWake(t) \/ RespondOk(t) \/ RespondRateLimit(t)
        \/ RespondTransient(t) \/ RetryWake(t)

\* a session that calls scrape_properties
PropertiesStep == Entered \/ Launch \/ Collect \/ SleepWake \/ AExit

\* a session that calls scrape_search
SearchStep == StartSearch \/ FirstPage \/ CollectPage \/ SearchWake

MainStep == PropertiesStep \/ SearchStep

\* the points in time somebody waits for
Wakes == {call[t].wake : t \in {u \in Calls : call[u].pc \in Timed}}
           \cup (IF main.pc = "sleep" THEN {main.wake} ELSE {})

\* nothing is ready to run: the loop sleeps until the earliest timer or
\* I/O completion
Advance ==
    /\ ~ENABLED (CallStep \/ MainStep \/ FlowStep)
    /\ \E w \in Wakes :
         /\ w > now
         /\ \A x \in Wakes : x > now => w <= x
         /\ now' = w
    /\ UNCHANGED <<tokens, last_time, lim, calc, flow, semaphore, last_successful_url,
                   session, referer, call, doneq, main, hist>>

Init ==
    /\ now = 0
    /\ tokens = InitialTokens * FillDen
    /\ last_time = 0
    /\ lim = NoCall
    /\ semaphore = concurrent_requests_limit
    /\ last_successful_url = NoUrl
    /\ session = "open"
    /\ referer = InitialReferer
    /\ call = [t \in Calls |-> IF t = 0 THEN [NewCall EXCEPT !.pc = "gate", !.url = 0]
                               ELSE NewCall]
    /\ doneq = << >>
    /\ \E h \in Identities :
         \/ \E k \in 0 .. NUrls, b \in 1 .. batch_size :
              main = [NewMain("properties", k, FALSE) EXCEPT !.batch_size = b,
                                                            !.headers = h]
         \/ \E p \in BOOLEAN :
              main = [NewMain("search", 0, p) EXCEPT !.headers = h]
    /\ flow = NoFlow
    /\ hist = [lastGrant |-> -1, lastGap |-> -1, faults |-> 0, grants |-> 0]
    /\ calc = NoCalc

Next == CallStep \/ MainStep \/ Advance

Spec == Init /\ [][Next]_vars

\* the event loop keeps running: a ready task is run, and when none is ready
\* the earliest sleep or GET comes to its end
FairSpec == Spec /\ WF_vars(Next)

\* the pipeline once scrape_search_task has returned n property URLs, at the
\* top of the chunk loop; the search took no time or used up the time budget
SearchTimes == {0, max_execution_time + 1}

FlowInit ==
    /\ now \in SearchTimes
    /\ tokens = InitialTokens * FillDen
    /\ last_time = 0
    /\ lim = NoCall
    /\ semaphore = concurrent_requests_limit
    /\ last_successful_url = NoUrl
    /\ session = "closed"
    /\ referer = InitialReferer
    /\ call = [t \in Calls |-> NewCall]
    /\ doneq = << >>
    /\ main = NewMain("none", 0, FALSE)
    /\ \E k \in 0 .. NFound :
         flow = [NoFlow EXCEPT !.pc = "check", !.n = k]
    /\ hist = [lastGrant |-> -1, lastGap |-> -1, faults |-> 0, grants |-> 0]
    /\ calc = NoCalc

FlowNext == CallStep \/ PropertiesStep \/ FlowStep \/ Advance

SpecFlow == FlowInit /\ [][FlowNext]_vars

(* ------------------------------------------------------------------ *)
(* The limiter alone, called at arbitrary non-decreasing times          *)
(* ------------------------------------------------------------------ *)
Gaps == {1, 5, 26, 27, 40}

\* TokenBucket.get_tokens at time t: the refill, capped at the capacity
get_tokens(b, t) ==
    [b EXCEPT !.tokens = Min(b.capacity, b.tokens + (t - b.timestamp)),
              !.timestamp = t]

\* TokenBucket.consume(amount) at time t
TokenBucket_consume(b, t, amount) ==
    LET g == get_tokens(b, t)
    IN  IF amount * FillDen <= g.tokens
        THEN [g EXCEPT !.tokens = @ - amount * FillDen, !.ok = TRUE]
        ELSE [g EXCEPT !.ok = FALSE]

\* the client around the limiter stays as constructed
ClientIdle ==
    /\ semaphore = concurrent_requests_limit
    /\ last_successful_url = NoUrl
    /\ session = "open"
    /\ referer = InitialReferer
    /\ call = [t \in Calls |-> NewCall]
    /\ doneq = << >>
    /\ main = NewMain("none", 0, FALSE)
    /\ flow = NoFlow
    /\ hist = [lastGrant |-> -1, lastGap |-> -1, faults |-> 0, grants |-> 0]

LimInit ==
    /\ now = 0
    /\ tokens = InitialTokens * FillDen
    /\ last_time = 0
    /\ lim = NoCall
    /\ calc = NoCalc
    /\ ClientIdle

\* time passes between two calls
LimPass ==
    /\ \E d \in Gaps : now + d <= MaxClock /\ now' = now + d
    /\ UNCHANGED <<tokens, last_time, lim, calc>>
    /\ UNCHANGED clientVars

\* one consume(1) call: a direct call or one round of wait_for_token; the
\* same attempt is made on the TokenBucket at the same time
LimConsume ==
    /\ lim.n < MaxCalls
    /\ LET r == consume(tokens, last_time, now, 1)
       IN  /\ tokens' = r.tokens
           /\ last_time' = r.last_time
           /\ lim' = [n |-> lim.n + 1, pre |-> tokens,
                      elapsed |-> now - last_time, ok |-> r.ok,
                      bucket |-> TokenBucket_consume(lim.bucket, now, 1)]
    /\ UNCHANGED <<now, calc>>
    /\ UNCHANGED clientVars

LimNext == LimPass \/ LimConsume

SpecLimiter == LimInit /\ [][LimNext]_vars

(* ------------------------------------------------------------------ *)
(* A BaseHTTPClient with several slots, called concurrently             *)
(* ------------------------------------------------------------------ *)
\* BaseHTTPClient(base_url, concurrent_requests_limit=MaxLimit) with an open
\* httpx session; no request() call has been made
ClientInit ==
    /\ now = 0
    /\ tokens = InitialTokens * FillDen
    /\ last_time = 0
    /\ lim = NoCall
    /\ semaphore = MaxLimit
    /\ last_successful_url = NoUrl
    /\ session = "open"
    /\ referer = InitialReferer
    /\ call = [t \in Calls |-> NewCall]
    /\ doneq = << >>
    /\ \E h \in Identities :
         main = [NewMain("none", 0, FALSE) EXCEPT !.pc = "none", !.headers = h]
    /\ flow = NoFlow
    /\ hist = [lastGrant |-> -1, lastGap |-> -1, faults |-> 0, grants |-> 0]
    /\ calc = NoCalc

\* the callers: one more than there are slots, so that one has to wait
ClientCalls == 0 .. MaxLimit

\* a task calls request(url): it arrives at `async with self.semaphore`
ClientRequest ==
    /\ \E t \in ClientCalls :
         /\ call[t].pc = "new"
         /\ \A u \in Calls : u < t => call[u].pc # "new"
         /\ call' = [call EXCEPT ![t] = [@ EXCEPT !.pc = "gate", !.url = t]]
    /\ UNCHANGED <<now, tokens, last_time, lim, calc, flow, semaphore, last_successful_url,
                   session, referer, doneq, main, hist>>

ClientNext == ClientRequest \/ CallStep \/ Advance

SpecClient == ClientInit /\ [][ClientNext]_vars

(* ------------------------------------------------------------------ *)
(* The helper functions alone, called on arbitrary arguments            *)
(* ------------------------------------------------------------------ *)
TotalResults == (0 .. MaxResults) \cup {1234, 1450, 1810}
PageSizes == (1 .. MaxSize) \cup {30}
PageCaps == (1 .. MaxSize) \cup {60}
Lists == {[k \in 1 .. len |-> k] : len \in (0 .. MaxList) \cup {100}}
\* random.uniform(0.5, 1.5): the two ends and the middle, in halves
AllJitterHalves == 1 .. 3

CalcInit ==
    /\ now = 0
    /\ tokens = InitialTokens * FillDen
    /\ last_time = 0
    /\ lim = NoCall
    /\ calc = NoCalc
    /\ ClientIdle

CalcUnchanged ==
    /\ UNCHANGED limVars
    /\ UNCHANGED clientVars

\* scrape_search plans its pages: get_total_pages() and the cap
CalcPages ==
    /\ \E total \in TotalResults, per \in PageSizes, cap \in PageCaps :
         calc' = [fn |-> "pages", args |-> <<total, per, cap>>,
                  out |-> capped_pages(get_total_pages(total, per), cap)]
    /\ CalcUnchanged

\* list(chunks(lst, n))
CalcChunks ==
    /\ \E lst \in Lists, n \in PageSizes :
         calc' = [fn |-> "chunks", args |-> <<lst, n>>, out |-> chunks(lst, n)]
    /\ CalcUnchanged

\* _get_backoff_time(retry_count) with the jitter j/2
CalcBackoff ==
    /\ \E a \in 0 .. MaxAttempt, j \in AllJitterHalves :
         calc' = [fn |-> "backoff", args |-> <<a, j>>, out |-> BackoffTime(a, j)]
    /\ CalcUnchanged

CalcNext == CalcPages \/ CalcChunks \/ CalcBackoff

SpecCalc == CalcInit /\ [][CalcNext]_vars

(* ------------------------------------------------------------------ *)
(* Properties                                                           *)
(* ------------------------------------------------------------------ *)
\* the capacity of the limiter: the tokens it is constructed with
Capacity == InitialTokens * FillDen

C2_AdmissionRule ==
    lim.n > 0 =>
        /\ lim.elapsed >= 0
        /\ lim.ok <=> (lim.pre + lim.elapsed >= 1 * FillDen)
        /\ lim.ok => tokens = lim.pre + lim.elapsed - 1 * FillDen
        /\ ~lim.ok => tokens = lim.pre + lim.elapsed /\ tokens >= lim.pre
        /\ tokens >= 0

\* a denied call that follows a granted one after a partial refill
C2_Witness == lim.n >= 2 /\ ~lim.ok /\ lim.elapsed > 0 /\ tokens < 1 * FillDen

\* C3: two consecutive granted admissions of one client (two consecutive
\* GETs) are at least 27 seconds apart.
C3_Spacing == hist.lastGap >= 0 => hist.lastGap >= FillDen

\* C4: a call that received two rate-limit responses in a row has ended
\* RateLimited and has issued at most 2 GETs.
C4_TwoRateLimits ==
    \A t \in Calls :
        call[t].streak >= 2 => call[t].outcome = "RateLimited" /\ call[t].gets <= 2

\* a fetch task of the scraper method met two rate-limit responses in a row
C4_Witness ==
    \E t \in Calls : t >= 1 /\ call[t].streak = 2 /\ call[t].outcome = "RateLimited"

\* C5: a call ends RateLimited only at its second rate-limit response: the
\* first one, even after transient failures, is answered by the cooldown.
C5_FirstRateLimitCoolsDown ==
    \A t \in Calls : call[t].outcome = "RateLimited" => call[t].rls >= 2

\* C6: a call issues at most max_retries + 1 GETs, its attempt index stays
\* in 0..max_retries, and a call that met only transient failures has
\* returned None after exactly max_retries + 1 GETs.
C6_RetryBudget ==
    \A t \in Calls :
        /\ call[t].gets <= max_retries + 1
        /\ call[t].retries \in 0 .. max_retries
        /\ call[t].gets <= call[t].retries + 1
        /\ (call[t].pc = "done" /\ call[t].rls = 0
                /\ call[t].outcome \notin {"Success", "Crashed"})
             => call[t].outcome = "Transient" /\ call[t].gets = max_retries + 1
        /\ call[t].outcome = "Transient" /\ call[t].rls = 0
             => call[t].gets = max_retries + 1

\* a fetch task used all its attempts on transient failures
C6_Witness ==
    \E t \in Calls : t >= 1 /\ call[t].outcome = "Transient" /\ call[t].rls = 0
                     /\ call[t].gets = max_retries + 1

\* C7: at most concurrent_requests_limit calls are between acquiring and
\* releasing the gate; with the limit 1 at most one GET is in flight.
C7_Gate ==
    /\ Cardinality({t \in Calls : call[t].pc \in Holding}) <= concurrent_requests_limit
    /\ semaphore + Cardinality({t \in Calls : call[t].pc \in Holding})
         = concurrent_requests_limit
    /\ concurrent_requests_limit = 1
         => Cardinality({t \in Calls : call[t].pc = "get"}) <= 1

\* a GET is in flight while another fetch task waits at the gate
C7_Witness ==
    \E t, u \in Calls : call[t].pc = "get" /\ call[u].pc = "gate"

\* C9: once a fetch of the batch has ended RateLimited, no GET is issued for
\* another item of the batch.
C9_NoGetAfterHardStop ==
    [][(\E t \in Calls : t >= 1 /\ call[t].outcome = "RateLimited")
         => \A u \in Calls : call'[u].gets = call[u].gets]_vars

\* C8: once a fetch launched by scrape_properties has ended RateLimited,
\* scrape_properties does not return a record list, and the pipeline starts
\* no session for a chunk any more.
C8_HardStopAborts ==
    [][/\ (\E t \in Calls : t >= 1 /\ call'[t].outcome = "RateLimited")
            => main'.pc # "returned"
       /\ HardStopped => ~(flow.pc = "check" /\ flow'.pc = "scrape")]_vars

\* C10: a follow-up page that ends RateLimited is never handled like a page
\* that failed to parse: scrape_search does not log it and go on to return
\* a URL list.
C10_SearchSurfacesRateLimit ==
    main.mode = "search" =>
        /\ \A k \in 1 .. Len(main.logged) : main.logged[k] # "RateLimited"
        /\ main.pc = "returned"
             => \A t \in Calls : t >= 2 => call[t].outcome # "RateLimited"

\* the least p >= 0 with p * d >= n
CeilDiv(n, d) == CHOOSE p \in 0 .. n : p * d >= n /\ \A r \in 0 .. p - 1 : r * d < n

\* C11: the number of pages scrape_search plans for totalResults results,
\* resultsPerPage per page and the cap maxPages is
\* min(ceil(totalResults / resultsPerPage), maxPages); (1450, 30) gives 49,
\* (1234, 30) gives 42, and (1810, 30) gives 61, capped to 60.
C11_PaginationPlan ==
    calc.fn = "pages" =>
        LET total == calc.args[1]
            per == calc.args[2]
            cap == calc.args[3]
        IN  /\ calc.out = Min(CeilDiv(total, per), cap)
            /\ (total = 1450 /\ per = 30 /\ cap = 60) => calc.out = 49
            /\ (total = 1234 /\ per = 30 /\ cap = 60) => calc.out = 42
            /\ (total = 1810 /\ per = 30) => get_total_pages(total, per) = 61
            /\ (total = 1810 /\ per = 30 /\ cap = 60) => calc.out = 60

\* a plan that was capped, on a result count that is no multiple of the page size
C11_Witness ==
    /\ calc.fn = "pages"
    /\ calc.args = <<1810, 30, 60>>
    /\ calc.out = 60

\* the chunks of a list, one after the other
RECURSIVE Concat(_)
Concat(ss) == IF ss = << >> THEN << >> ELSE Head(ss) \o Concat(Tail(ss))

\* C12: chunks() of n items with chunk size k yields ceil(n/k) chunks, all of
\* k items except the last, which has 1..k items; their concatenation is the
\* list; 100 items with k = 30 give chunks of 30, 30, 30, 10.
C12_Chunking ==
    calc.fn = "chunks" =>
        LET lst == calc.args[1]
            k == calc.args[2]
            cs == calc.out
        IN  /\ Len(cs) = CeilDiv(Len(lst), k)
            /\ \A c \in 1 .. Len(cs) - 1 : Len(cs[c]) = k
            /\ Len(cs) > 0 => Len(cs[Len(cs)]) \in 1 .. k
            /\ Concat(cs) = lst
            /\ (Len(lst) = 100 /\ k = 30)
                 => <<Len(cs[1]), Len(cs[2]), Len(cs[3]), Len(cs[4])>>
                      = <<30, 30, 30, 10>> /\ Len(cs) = 4

\* a list cut into full chunks and a shorter last one
C12_Witness ==
    /\ calc.fn = "chunks"
    /\ Len(calc.out) >= 3
    /\ Len(calc.out[Len(calc.out)]) < calc.args[2]

\* base(a) of the backoff: min(initial_backoff * 2^a, max_backoff)
BaseOf(a) == IF initial_backoff * (2 ^ a) <= max_backoff
             THEN initial_backoff * (2 ^ a) ELSE max_backoff

\* C16: the delay of _get_backoff_time(a) lies within
\* [0.5 * base(a), 1.5 * base(a)], and base(a) is non-decreasing in a and
\* never exceeds max_backoff.
C16_BackoffBounds ==
    calc.fn = "backoff" =>
        LET a == calc.args[1]
        IN  /\ 2 * calc.out >= BaseOf(a)
            /\ 2 * calc.out <= 3 * BaseOf(a)
            /\ BaseOf(a) <= max_backoff
            /\ BaseOf(a) <= BaseOf(a + 1)
            /\ BackoffBase(a) = BaseOf(a)

\* the longest delay of a capped backoff
C16_Witness ==
    /\ calc.fn = "backoff"
    /\ calc.args[1] >= 2
    /\ 2 * calc.out = 3 * max_backoff

\* the chunk loop was left by the time check: chunks remain and nothing failed
BudgetStop == flow.error = "none" /\ flow.i * flow_batch_size < flow.n

\* C13: a chunk is started only when the check right before it finds the
\* elapsed time within max_execution_time; a check that finds it exceeded
\* ends the loop, no chunk is started afterwards, and the run ends with the
\* report, which states the items of the chunks processed so far.
C13_TimeBudget ==
    [][/\ (flow.pc = "check" /\ flow'.pc = "scrape")
            => now - flow.start_time <= max_execution_time
       /\ (flow.pc = "check" /\ flow.i * flow_batch_size < flow.n
              /\ now - flow.start_time > max_execution_time)
            => flow'.pc = "report"
       /\ flow.pc \in {"report", "done", "failed"}
            => flow'.pc \notin {"check", "scrape", "upload"}
       /\ (flow.pc = "report" /\ BudgetStop)
            => flow'.pc = "done" /\ flow'.processed = flow.i * flow_batch_size]_vars

\* the request() calls of the item fetches made for the URL u
Dispatched(u) == {t \in Calls : t >= 1 /\ call[t].pc # "new" /\ call[t].url = u}

\* scrape_properties has made its task list
Launched == main.mode = "properties" /\ main.pc \in {"await", "sleep", "returned", "raised"}

\* C14: scrape_properties over n distinct URLs submits every URL as exactly
\* one request() call and nothing else, in any order, and the returned list
\* holds at most n records, at most one per input URL.
C14_NoDuplicateFetches ==
    main.mode = "properties" =>
        /\ Launched => \A u \in 1 .. main.n : Cardinality(Dispatched(u)) = 1
        /\ \A t \in Calls : (t >= 1 /\ call[t].pc # "new")
                                => Launched /\ call[t].url \in 1 .. main.n
        /\ Len(main.properties) <= main.n
        /\ \A a, b \in 1 .. Len(main.properties) :
              /\ main.properties[a] \in 1 .. main.n
              /\ main.properties[a] = main.properties[b] => a = b

\* a shuffled list of URLs was scraped and every URL gave a record
C14_Witness ==
    /\ main.mode = "properties"
    /\ main.pc = "returned"
    /\ main.n >= 2
    /\ call[1].url # 1
    /\ Len(main.properties) = main.n

\* the URLs whose fetch came back with a page that parsed
Scraped == {call[t].url : t \in {u \in 1 .. main.n :
                call[u].outcome = "Success" /\ call[u].data = "record"}}

\* C15: an item whose fetch ends in None or whose page fails to parse is left
\* out of the returned list and does not abort the batch: every other item is
\* still fetched, and is in the list if it fetched and parsed.
C15_FailureIsolation ==
    main.mode = "properties" =>
        /\ main.pc = "raised" => \E t \in 1 .. main.n : call[t].outcome = "RateLimited"
        /\ main.pc = "returned" =>
              /\ \A t \in 1 .. main.n : call[t].pc = "done" /\ call[t].gets >= 1
              /\ {main.properties[k] : k \in 1 .. Len(main.properties)} = Scraped

\* a batch returned the record of one item although another item failed
C15_Witness ==
    /\ main.mode = "properties"
    /\ main.pc = "returned"
    /\ Len(main.properties) >= 1
    /\ \E t \in 1 .. main.n : call[t].outcome = "Transient"
    /\ \E t \in 1 .. main.n : call[t].outcome = "Success" /\ call[t].data = "record"

\* C17: every request() call ends in exactly one of Success (a response),
\* TransientFailure (None) or RateLimited (RateLimitException); Success only
\* after a GET, and no attempt is made after the outcome.
C17_OneOutcome ==
    /\ [](\A t \in Calls :
            /\ call[t].pc = "done" <=> call[t].outcome # "none"
            /\ call[t].pc = "done"
                 => /\ call[t].outcome \in {"Success", "Transient", "RateLimited"}
                    /\ call[t].outcome = "Success" => call[t].gets >= 1)
    /\ [][\A t \in Calls :
            (call[t].pc = "done" /\ call'[t].pc = "done" /\ call'[t].url = call[t].url)
                => call'[t] = call[t]]_vars

\* C18: a chunk whose scrape yields no record triggers no clean / upload /
\* load step, leaves processed_properties as it is and does not stop the run:
\* the loop goes on to the next chunk, which is started if there is one and
\* the time budget allows it.
C18_EmptyChunkSkip ==
    /\ [](flow.pc = "upload" => Len(main.properties) > 0)
    /\ [][(flow.pc = "scrape" /\ main.pc = "returned" /\ Len(main.properties) = 0
             /\ flow' # flow)
            => flow' = [flow EXCEPT !.pc = "check", !.i = @ + 1]]_vars
    /\ [][(flow.pc = "check" /\ flow.i * flow_batch_size < flow.n
             /\ now - flow.start_time <= max_execution_time /\ flow' # flow)
            => flow'.pc = "scrape" /\ main'.n = ChunkLen(flow.n, flow.i)]_vars

\* the chunk after a chunk without records is being scraped
C18_Witness ==
    /\ flow.pc = "scrape"
    /\ flow.i = 1
    /\ flow.processed = 0
    /\ flow.error = "none"
    /\ main.pc = "await"

\* C19: when clean, upload or load of chunk i fails, no chunk after i is
\* fetched or uploaded and processed_properties does not count chunk i.
C19_UploadFailureAborts ==
    [][/\ (flow.pc = "upload" /\ flow'.error = "upload")
            => flow'.pc = "report" /\ flow'.processed = flow.processed
       /\ flow.error = "upload"
            => /\ flow'.pc \in {"report", "done", "failed"}
               /\ flow'.processed = flow.processed
               /\ flow'.i = flow.i
               /\ \A t \in Calls : call'[t].gets = call[t].gets]_vars

\* the run is over after a failed upload of a chunk that was not the last
C19_Witness ==
    /\ flow.pc = "done"
    /\ flow.error = "upload"
    /\ (flow.i + 1) * flow_batch_size < flow.n

\* C20: a run in which the upload of a chunk failed does not end like a run
\* without errors: the failure reaches the caller of the pipeline.
C20_UploadFailureSurfaced == flow.error = "upload" => flow.pc # "done"

\* C21: a backoff sleep follows a transient failure only when the attempt
\* index is below max_retries, so a call sleeps for backoff at most
\* max_retries times.
C21_NoBackoffAfterLastAttempt ==
    \A t \in Calls :
        /\ call[t].pc = "backoff" => call[t].retries < max_retries
        /\ call[t].backoffs <= max_retries

\* the GETs issued by the calls 0..k
RECURSIVE GetsUpTo(_)
GetsUpTo(k) == IF k < 0 THEN 0 ELSE call[k].gets + GetsUpTo(k - 1)

\* C22: every GET is preceded by its own granted admission: the tokens the
\* client has taken from its limiter are as many as the GETs it has issued.
C22_AdmissionPerAttempt == hist.grants = GetsUpTo(NCalls)

\* C23: last_successful_url changes only when a GET comes back with status
\* 200 and becomes the URL of that call; every GET carries
\* last_successful_url as referer when it is set, and the initial referer of
\* the session before the first success.
C23_RefererTracking ==
    /\ [][\A t \in Calls :
            /\ (call[t].pc = "get" /\ call'[t].outcome = "Success")
                 => last_successful_url' = call[t].url
            /\ call'[t].gets = call[t].gets + 1
                 => call'[t].referer = IF last_successful_url # NoUrl
                                       THEN last_successful_url ELSE InitialReferer]_vars
    /\ [][last_successful_url' # last_successful_url
            => \E t \in Calls : call[t].pc = "get" /\ call'[t].outcome = "Success"]_vars

\* the warm-up GET went out with the initial referer, and an item's GET
\* with the URL of another item
C23_Witness ==
    /\ call[0].referer = InitialReferer
    /\ \E t \in Calls : t >= 1 /\ call[t].referer >= 1 /\ call[t].referer # call[t].url

\* C24: every response of a call is a success, a rate-limit response
\* (cooldown or RateLimitException, never a backoff) or a transient failure
\* (backoff, never the cooldown), and a call sleeps the cooldown at most once.
C24_CooldownVersusBackoff ==
    /\ [](\A t \in Calls :
            /\ call[t].cooldowns <= 1
            /\ call[t].cooldowns <= call[t].rls
            /\ call[t].gets = call[t].rls + call[t].backoffs
                   + (IF call[t].outcome = "Success" THEN 1 ELSE 0)
                   + (IF call[t].pc = "get" THEN 1 ELSE 0)
            /\ call[t].pc = "cooldown" => call[t].wake >= now)
    /\ [][\A t \in Calls :
            /\ call'[t].rls = call[t].rls + 1 => call'[t].backoffs = call[t].backoffs
            /\ call'[t].backoffs = call[t].backoffs + 1
                 => call'[t].cooldowns = call[t].cooldowns /\ call'[t].rls = call[t].rls
            /\ call'[t].cooldowns = call[t].cooldowns + 1
                 => call'[t].wake = now + sleep_after_rate_limit]_vars

\* a call slept the cooldown and, later, a backoff
C24_Witness ==
    \E t \in Calls : t >= 1 /\ call[t].cooldowns = 1 /\ call[t].backoffs >= 1

\* the follow-up pages scrape_search has requested
PagesRequested == {call[t].url : t \in {u \in Calls : u >= 2 /\ call[u].pc # "new"}}

\* C25: scrape_search with paginate=True requests, after the first page,
\* exactly the pages 2..P, each once, P = min(totalPages, max_pages): at most
\* max_pages pages with the first one, and none when totalPages <= 1.
C25_PagesRequested ==
    (main.mode = "search" /\ main.paginate) =>
        LET P == Min(main.counted, max_pages)
        IN  /\ main.counted = NoCount => PagesRequested = {}
            /\ main.counted # NoCount =>
                  /\ PagesRequested = 2 .. P
                  /\ \A t, u \in Calls :
                        (t >= 2 /\ u >= 2 /\ call[t].pc # "new" /\ call[u].pc # "new"
                           /\ call[t].url = call[u].url) => t = u
                  /\ main.n = Cardinality(PagesRequested)
                  /\ 1 + Cardinality(PagesRequested) <= max_pages
                  /\ main.counted <= 1 => PagesRequested = {}

\* a search whose page count was capped has fetched its pages 2..max_pages
C25_Witness ==
    /\ main.mode = "search"
    /\ main.counted > max_pages
    /\ main.pc = "returned"
    /\ Len(main.property_urls) = max_pages

\* C26: scrape_search with paginate=False requests the search URL only,
\* plans no pagination and returns the URLs of the first page.
C26_NoPagination ==
    (main.mode = "search" /\ ~main.paginate) =>
        /\ PagesRequested = {}
        /\ main.counted = NoCount
        /\ main.pc \notin {"await", "sleep"}
        /\ main.pc = "returned"
             => main.property_urls = <<1>> /\ call[1].outcome = "Success"

\* the search without pagination has returned
C26_Witness ==
    /\ main.mode = "search"
    /\ ~main.paginate
    /\ main.pc = "returned"
    /\ session = "closed"

\* C27: when the result count of the first page cannot be found or parsed,
\* scrape_search with paginate=True fails with an error, requests no
\* follow-up page and returns no URL list.
C27_CountFailureStops ==
    (main.mode = "search" /\ main.counted # NoCount /\ main.counted < 0) =>
        /\ main.paginate
        /\ main.pc = "raised"
        /\ main.exc = "Error"
        /\ PagesRequested = {}

\* the search left on a first page without a count, and its session is closed
C27_Witness ==
    /\ main.mode = "search"
    /\ main.counted = -1
    /\ main.pc = "raised"
    /\ session = "closed"

C29_CooldownThrottles ==
    [][(main.mode = "properties" /\ main.pc = "sleep" /\ now < main.wake
          /\ main.request_counter < main.n)
         => \A t \in Calls : t >= 1 => call'[t].gets = call[t].gets]_vars

\* C30: the time budget is read between chunks only: a chunk that was
\* started is scraped, and uploaded if it has records, whether or not the
\* budget expires meanwhile; the loop is left only at the check or by a
\* failed upload.
C30_BudgetNotPreemptive ==
    /\ [][(flow.pc = "scrape" /\ main.pc = "returned" /\ Len(main.properties) > 0
             /\ flow' # flow)
            => flow'.pc = "upload"]_vars
    /\ [][(flow.pc = "upload" /\ flow' # flow /\ flow'.error # "upload")
            => /\ flow'.pc = "check"
               /\ flow'.processed = flow.processed + Len(main.properties)]_vars
    /\ [][(flow'.pc = "report" /\ flow.pc # "report")
            => flow.pc = "check" \/ flow'.error = "upload"]_vars

\* a chunk was uploaded and counted although the budget expired during it
C30_Witness ==
    /\ flow.pc = "check"
    /\ flow.i = 1
    /\ flow.processed >= 1
    /\ flow.start_time = 0
    /\ now - flow.start_time > max_execution_time

\* C31: processed_properties starts at 0, never decreases, never exceeds the
\* number of property URLs found, and changes only when the clean, upload and
\* load of a chunk completed, by the record count of that chunk: it is the
\* sum of the record counts of the chunks loaded so far.
C31_ProgressCounter ==
    /\ [](/\ flow.processed >= 0
          /\ flow.processed <= flow.n
          /\ flow.processed <= flow.i * flow_batch_size
          /\ flow.i = 0 => flow.processed = 0)
    /\ [][flow'.processed >= flow.processed]_vars
    /\ [][(flow.pc = "upload" /\ flow'.pc = "check")
            => flow'.processed = flow.processed + Len(main.properties)]_vars
    /\ [][~(flow.pc = "upload" /\ flow'.pc = "check")
            => flow'.processed = flow.processed]_vars

\* two chunks were loaded, an item of which had failed: 2 of 3 processed
C31_Witness ==
    /\ flow.pc = "done"
    /\ flow.n = 3
    /\ flow.i = 2
    /\ flow.processed = 2
    /\ flow.error = "none"

\* C32: within one session the header set is drawn once, at session entry,
\* and every GET of the session carries it: no step of the session changes
\* the drawn header set, and a request writes the referer field only.
C32_IdentityLifecycle ==
    /\ [](/\ main.headers \in Identities
          /\ \A t \in Calls : call[t].gets > 0 => call[t].identity = main.headers)
    /\ [][main'.headers = main.headers]_vars
    /\ [][\A t \in Calls :
            call'[t].gets > call[t].gets
            => /\ call'[t].identity = main.headers
               /\ main' = main]_vars

\* the warm-up request and an item's request went out with the second header
\* set and with different referers
C32_Witness ==
    /\ main.headers = 2
    /\ call[0].gets > 0
    /\ call[1].gets > 0
    /\ call[0].identity = 2
    /\ call[1].identity = 2
    /\ call[1].referer # call[0].referer

\* C33: with more than one slot, under every interleaving of concurrent
\* request() calls, every admission takes one whole token of its own (the
\* token count is never negative and the tokens granted plus the tokens left
\* are the initial tokens plus the refill), and the referer a GET carries is
\* last_successful_url as it is when the GET is issued (the header of the
\* session while no request has succeeded).
C33_RaceFreedom ==
    /\ [](/\ tokens >= 0
          /\ tokens + hist.grants * FillDen = InitialTokens * FillDen + last_time
          /\ semaphore >= 0)
    /\ [][\A t \in Calls :
            call'[t].gets > call[t].gets
            => /\ hist'.grants = hist.grants + 1
               /\ tokens + (now - last_time) >= FillDen
               /\ tokens' = tokens + (now - last_time) - FillDen
               /\ call'[t].referer = IF last_successful_url # NoUrl
                                     THEN last_successful_url
                                     ELSE InitialReferer]_vars

\* two calls have a GET in flight at the same time, sent with different
\* referers
C33_Witness ==
    \E t, u \in Calls :
        /\ t # u
        /\ call[t].pc = "get"
        /\ call[u].pc = "get"
        /\ call[t].referer = InitialReferer
        /\ call[u].referer \in Calls

\* the calls that are inside `async with self.semaphore`
SlotsHeld == Cardinality({t \in Calls : call[t].pc \in Holding})

\* C34: a request() call gives its slot back however it ends (response,
\* None, RateLimitException): the free slots plus the calls inside the gate
\* are concurrent_requests_limit, so with no call inside every slot is free
\* and a call waiting at the gate can enter.
C34_GateRelease ==
    /\ [](/\ semaphore + SlotsHeld = concurrent_requests_limit
          /\ SlotsHeld = 0 => semaphore = concurrent_requests_limit
          /\ (SlotsHeld = 0 /\ \E t \in Calls : call[t].pc = "gate")
             => ENABLED CallStep)
    /\ [][\A t \in Calls :
            (call[t].pc \in Holding /\ call'[t].pc = "done")
            => semaphore' = semaphore + 1]_vars

\* after a call left by RateLimitException the next call got the gate and
\* ended too: every slot is free again
C34_Witness ==
    /\ call[0].outcome = "Success"
    /\ call[1].outcome = "RateLimited"
    /\ call[2].pc = "done"
    /\ call[2].outcome \in {"Success", "Transient"}
    /\ semaphore = concurrent_requests_limit

\* the sleeps of a call: the poll of wait_for_token, the backoff, the cooldown
Sleeping == {"poll", "backoff", "cooldown"}

\* C35: a call keeps its slot while it polls the limiter, backs off or cools
\* down; with concurrent_requests_limit = 1 no other call issues a GET while
\* a call sleeps, nor at any point between the entry and the end of a call.
C35_SlotHeldAcrossSleeps ==
    /\ [](\A t \in Calls :
            call[t].pc \in Sleeping
            => /\ semaphore = 0
               /\ \A u \in Calls : u # t => call[u].pc \notin Holding)
    /\ [][\A t \in Calls :
            (call[t].pc \in Sleeping /\ call'[t].pc \in Sleeping)
            => semaphore' = semaphore]_vars
    /\ [][\A t, u \in Calls :
            (t # u /\ call[t].pc \in Holding)
            => call'[u].gets = call[u].gets]_vars

\* a call is in the rate-limit cooldown and the next call waits at the gate
C35_Witness ==
    /\ call[1].pc = "cooldown"
    /\ call[1].wake > now
    /\ call[2].pc = "gate"
    /\ semaphore = 0

\* C36: whatever the number of property URLs found (0 included) and however
\* the chunk loop stopped, the final report of the pipeline completes: the
\* step out of the report ends the run normally.
C36_FinalReport ==
    [][(flow.pc = "report" /\ flow' # flow) => flow'.pc = "done"]_vars

\* C37: while the event loop runs, every run comes to the point where every
\* launched request() call has got the gate and has ended, and where
\* scrape_properties has returned or raised (or the session was given up at
\* its warm-up request); a call that has ended has been through the gate.
C37_Termination ==
    /\ <>(/\ \A t \in Calls : call[t].pc \in {"new", "done"}
          /\ main.mode = "properties"
             => main.pc \in {"returned", "raised", "aborted"})
    /\ [][\A t \in Calls : call'[t].pc = "done" => call[t].pc \in Holding \cup {"done"}]_vars
    /\ [][\A t \in Calls : call[t].pc # "new" => call'[t].pc # "new"]_vars

\* a batch of two items has returned after a call of it had polled the
\* limiter, backed off and retried
C37_Witness ==
    /\ main.mode = "properties"
    /\ main.n = 2
    /\ main.pc = "returned"
    /\ \A t \in 0 .. 2 : call[t].pc = "done"
    /\ \E t \in 1 .. 2 : call[t].backoffs > 0 /\ call[t].gets > 1

\* C38: driven by the same consume(1) attempts at the same times, RateLimiter
\* and TokenBucket grant exactly the same attempts.
C38_BucketsEquivalent == lim.n > 0 => (lim.ok <=> lim.bucket.ok)

====
